---- MODULE Spec2Model ----
(***************************************************************************)
(* A model of the type-registration and translation pipeline of            *)
(* new_graphene: field descriptors and their arguments (fields/helpers.py, *)
(* fields/base.py, fields/arguments.py, fields/dynamic.py), the metaclass  *)
(* that collects a class namespace into _meta.fields (base.py) and the     *)
(* TypesContainer that translates declared types into native types         *)
(* (schema.py).                                                            *)
(*                                                                         *)
(* Python objects live in `heap` (index = object identity), declared       *)
(* classes in `types` (index = class identity), native GraphQL objects in  *)
(* `natives` (index = identity; the predefined GraphQLString / GraphQLInt  *)
(* singletons are the negative numbers below).                             *)
(***************************************************************************)
EXTENDS Integers, Sequences, FiniteSets, TLC

VARIABLES heap, types, memo, natives, lazy_calls, lastOp, lastOut, err, input

vars == <<heap, types, memo, natives, lazy_calls, lastOp, lastOut, err, input>>

\* ---------------------------------------------------------------- bounds
\* objects and classes of a run of Spec
MaxObjs == 3
MaxTypes == 4
\* objects of a run of SpecDecl
MaxDeclObjs == 3
\* objects of a run of SpecIface
MaxIfaceObjs == 2
\* objects of a run of SpecArgs
MaxArgObjs == 4
\* lazy callables run
MaxLazyCalls == 3

\* ------------------------------------------------------------- constants
None == "None"
NoRef == 0

GraphQLString == 0 - 1
GraphQLInt == 0 - 2

StringT == 1
IntegerT == 2

Range(s) == {s[i] : i \in DOMAIN s}

\* ordered mapping (a Python dict): a sequence of <<key, value>> pairs
HasKey(d, k) == \E i \in DOMAIN d : d[i][1] = k

Lookup(d, k) == d[CHOOSE i \in DOMAIN d : d[i][1] = k][2]

\* d[k] = v : an existing key keeps its position, a new key goes last
DictSet(d, k, v) ==
    IF HasKey(d, k)
    THEN [i \in DOMAIN d |-> IF d[i][1] = k THEN <<k, v>> ELSE d[i]]
    ELSE Append(d, <<k, v>>)

RECURSIVE DictUpdate(_, _)
DictUpdate(d, e) ==
    IF e = <<>> THEN d
    ELSE DictUpdate(DictSet(d, Head(e)[1], Head(e)[2]), Tail(e))

DictKeys(d) == [i \in DOMAIN d |-> d[i][1]]

\* ------------------------------------------------------- declared types
BaseTypeRec(kind, name) ==
    [kind |-> kind, name |-> name, fields |-> <<>>, namespace |-> <<>>,
     interfaces |-> <<>>]

\* the class currently bound to a Python name: the latest class statement
Bound(ts, n) ==
    IF \E i \in DOMAIN ts : ts[i].name = n
    THEN CHOOSE i \in DOMAIN ts :
            /\ ts[i].name = n
            /\ \A j \in DOMAIN ts : ts[j].name = n => j <= i
    ELSE NoRef

\* ------------------------------------------------------- field objects
\* BaseField.__init__ : every descriptor starts from the class attribute
\* creation_counter = 1; nothing in a constructor assigns it.
creation_counter == 1

BaseField(cls) ==
    [cls |-> cls, field_type |-> NoRef, lazy |-> None, name |-> None,
     given_name |-> None, creation_counter |-> creation_counter,
     args |-> <<>>, extra_args |-> <<>>, arguments |-> <<>>,
     resolver |-> None]

\* Argument(field_type, name=name)
Argument(field_type, name) ==
    [BaseField("Argument") EXCEPT !.field_type = field_type, !.name = name,
                                  !.given_name = name]

\* a scalar instance used as a class attribute or as an argument: String()
ImplicitField(field_type, kwargs) ==
    [BaseField("Implicit") EXCEPT !.field_type = field_type,
                                  !.extra_args = kwargs]

\* Dynamic(lambda: <the class bound to `target`>), or lambda: None
Dynamic(target) == [BaseField("Dynamic") EXCEPT !.lazy = target]

\* Dynamic._get_type : runs the lazy callable.  A name that no class
\* statement has bound yet raises NameError inside the lambda.
LazyRaises(ts, target) == target # None /\ Bound(ts, target) = NoRef

LazyResult(ts, target) == IF target = None THEN NoRef ELSE Bound(ts, target)

\* --------------------------------------------------- translate_arguments
\* the state threaded through the loop of Argument.translate_arguments
ArgLoop(h, calls) == [heap |-> h, final |-> <<>>, err |-> None, calls |-> calls]

\* lines 108-120: name the instance, reject a duplicate, store
StoreArgument(st, key, inst) ==
    LET default_name == IF st.heap[inst].name # None
                        THEN st.heap[inst].name ELSE key
        h2 == [st.heap EXCEPT ![inst].name = default_name]
    IN  IF HasKey(st.final, default_name)
        THEN [st EXCEPT !.heap = h2, !.err = "ValueError"]
        ELSE [st EXCEPT !.heap = h2,
                        !.final = Append(st.final, <<default_name, inst>>)]

\* the loop body without the `if field_type is None: continue` of lines
\* 92-93: the unresolved Dynamic goes on to Argument(None), which raises
TranslateEntryNoSkip(ts, st, entry) ==
    LET key == entry[1]
        v == entry[2]
        o == st.heap[v]
    IN  IF st.err # None THEN st
        ELSE IF o.cls = "Dynamic" /\ LazyRaises(ts, o.lazy)
        THEN [st EXCEPT !.err = "NameError", !.calls = @ + 1]
        ELSE IF o.cls = "Dynamic" /\ LazyResult(ts, o.lazy) = NoRef
        THEN [st EXCEPT !.err = "TypeError", !.calls = @ + 1]
        ELSE IF o.cls = "Dynamic"
        THEN LET inst == Len(st.heap) + 1
                 h2 == Append(st.heap, Argument(LazyResult(ts, o.lazy), None))
             IN  StoreArgument([st EXCEPT !.heap = h2, !.calls = @ + 2],
                               key, inst)
        ELSE IF o.cls = "Implicit" /\ o.extra_args # <<>>
        THEN [st EXCEPT !.err = "TypeError"]
        ELSE IF o.cls = "Implicit"
        THEN LET inst == Len(st.heap) + 1
                 h2 == Append(st.heap, Argument(o.field_type, None))
             IN  StoreArgument([st EXCEPT !.heap = h2], key, inst)
        ELSE IF o.cls = "Field"
        THEN [st EXCEPT !.err = "ValueError"]
        ELSE StoreArgument(st, key, v)

\* one iteration of the loop at lines 89-120
TranslateEntry(ts, st, entry) ==
    LET key == entry[1]
        v == entry[2]
        o == st.heap[v]
    IN  IF st.err # None THEN st
        ELSE IF o.cls = "Dynamic" /\ LazyRaises(ts, o.lazy)
        THEN [st EXCEPT !.err = "NameError", !.calls = @ + 1]
        ELSE IF o.cls = "Dynamic" /\ LazyResult(ts, o.lazy) = NoRef
        THEN [st EXCEPT !.calls = @ + 1]
        ELSE IF o.cls = "Dynamic"
        THEN \* resolved once at line 91, once more by create_new_field
             LET inst == Len(st.heap) + 1
                 h2 == Append(st.heap, Argument(LazyResult(ts, o.lazy), None))
             IN  StoreArgument([st EXCEPT !.heap = h2, !.calls = @ + 2],
                               key, inst)
        ELSE IF o.cls = "Implicit" /\ o.extra_args # <<>>
        THEN \* Argument(String, **kwargs): unexpected keyword argument
             [st EXCEPT !.err = "TypeError"]
        ELSE IF o.cls = "Implicit"
        THEN LET inst == Len(st.heap) + 1
                 h2 == Append(st.heap, Argument(o.field_type, None))
             IN  StoreArgument([st EXCEPT !.heap = h2], key, inst)
        ELSE IF o.cls = "Field"
        THEN [st EXCEPT !.err = "ValueError"]
        ELSE StoreArgument(st, key, v)

RECURSIVE TranslateLoop(_, _, _)
TranslateLoop(ts, st, entries) ==
    IF entries = <<>> THEN st
    ELSE TranslateLoop(ts, TranslateEntry(ts, st, Head(entries)), Tail(entries))

\* Argument.translate_arguments(field_obj): args.items() then extra_args
translate_arguments(ts, h, calls, args, extra_args) ==
    TranslateLoop(ts, ArgLoop(h, calls), args \o extra_args)

\* ------------------------------------------------------------ Field(...)
\* what a constructor call hands back: the grown heap, the new object (or
\* NoRef when it raised) and the number of lazy callables run so far
Made(h, oid, e, calls) == [heap |-> h, oid |-> oid, err |-> e, calls |-> calls]

\* Field.__init__(field_type, args=args, resolver=resolver, name=name, **extra_args)
\* field_type is a class here; line 72 translates the arguments before the
\* remaining attributes are assigned.
FieldInit(ts, h, calls, field_type, args, extra_args, name, resolver) ==
    LET st == translate_arguments(ts, h, calls, args, extra_args)
        obj == [BaseField("Field") EXCEPT !.field_type = field_type,
                    !.args = args, !.extra_args = extra_args,
                    !.arguments = st.final, !.name = name,
                    !.given_name = name, !.resolver = resolver]
    IN  IF st.err # None
        THEN Made(st.heap, NoRef, st.err, st.calls)
        ELSE Made(Append(st.heap, obj), Len(st.heap) + 1, None, st.calls)

\* ExplicitField.create_new_field with cls = Field:
\* cls(item._get_type(), *item.args, **item.kwargs)
create_new_field(ts, h, calls, item) ==
    LET o == h[item]
    IN  IF o.cls = "Dynamic"
        THEN IF LazyRaises(ts, o.lazy)
             THEN Made(h, NoRef, "NameError", calls + 1)
             ELSE IF LazyResult(ts, o.lazy) = NoRef
             THEN \* Field(None): issubclass(None, ...) raises
                  Made(h, NoRef, "TypeError", calls + 1)
             ELSE FieldInit(ts, h, calls + 1, LazyResult(ts, o.lazy),
                            <<>>, <<>>, None, None)
        ELSE FieldInit(ts, h, calls, o.field_type, <<>>, o.extra_args,
                       None, None)

\* a namespace value that is not a field object: a def, or a plain value
Function == 0
Other == 0 - 1

\* mount_type_as(value, Field)
mount_type_as(ts, h, calls, value) ==
    IF value <= 0 THEN Made(h, NoRef, None, calls)
    ELSE IF h[value].cls \in {"Field", "Argument"} THEN Made(h, value, None, calls)
    ELSE create_new_field(ts, h, calls, value)

\* ------------------------------------------------------------ BaseOptions
InternalKeys == {"_meta", "is_object_type"}

\* key.startswith('_') for the attribute names that occur
StartsWithUnderscore(key) == key \in {"__module__", "__qualname__", "_meta"}

\* BaseOptions.filter_fields
RECURSIVE filter_fields(_)
filter_fields(namespace) ==
    IF namespace = <<>> THEN <<>>
    ELSE LET key == Head(namespace)[1]
             rest == filter_fields(Tail(namespace))
         IN  IF StartsWithUnderscore(key) \/ key \in InternalKeys
             THEN rest
             ELSE DictUpdate(<<Head(namespace)>>, rest)

BuildLoop(h, calls) == [heap |-> h, fields |-> <<>>, err |-> None, calls |-> calls]

\* one iteration of the loop of BaseOptions.build_fields (lines 80-84)
BuildEntry(ts, st, entry) ==
    IF st.err # None THEN st
    ELSE LET key == entry[1]
             field_obj == entry[2]
             m == mount_type_as(ts, st.heap, st.calls, field_obj)
         IN  IF m.err # None
             THEN [st EXCEPT !.heap = m.heap, !.err = m.err, !.calls = m.calls]
             ELSE IF m.oid = NoRef
             THEN [st EXCEPT !.heap = m.heap, !.calls = m.calls]
             ELSE [st EXCEPT
                     !.heap = [m.heap EXCEPT ![field_obj].creation_counter = @ + 1],
                     !.fields = DictSet(st.fields, key, m.oid),
                     !.calls = m.calls]

RECURSIVE BuildFieldsLoop(_, _, _)
BuildFieldsLoop(ts, st, entries) ==
    IF entries = <<>> THEN st
    ELSE BuildFieldsLoop(ts, BuildEntry(ts, st, Head(entries)), Tail(entries))

\* BaseOptions.build_fields(namespace)
build_fields(ts, h, calls, namespace) ==
    BuildFieldsLoop(ts, BuildLoop(h, calls), filter_fields(namespace))

\* ------------------------------------------------- BaseObjectType.__new__
RECURSIVE InterfaceFields(_, _)
InterfaceFields(ts, interfaces) ==
    IF interfaces = <<>> THEN <<>>
    ELSE ts[Head(interfaces)].fields \o InterfaceFields(ts, Tail(interfaces))

Reverse(s) == [i \in DOMAIN s |-> s[Len(s) + 1 - i]]

\* the merge with the interfaces taken last to first, so that the first
\* listed interface has the last word
MergedFieldsFirstListed(ts, namespace, interfaces) ==
    DictUpdate(filter_fields(namespace), InterfaceFields(ts, Reverse(interfaces)))

\* lines 151-156: the own namespace, then every interface's fields on top
MergedFields(ts, namespace, interfaces) ==
    DictUpdate(filter_fields(namespace), InterfaceFields(ts, interfaces))

\* the class statement `class name(ObjectType | Interface)` with the given
\* namespace and Meta.interfaces; cls is "rec" = NoRef when it raised
BaseObjectType_new(ts, h, calls, kind, name, namespace, interfaces) ==
    LET source == IF kind = "Interface" THEN namespace
                  ELSE MergedFields(ts, namespace, interfaces)
        b == build_fields(ts, h, calls, source)
        rec == [kind |-> kind, name |-> name, fields |-> b.fields,
                namespace |-> namespace, interfaces |-> interfaces]
    IN  [heap |-> b.heap, err |-> b.err, calls |-> b.calls, rec |-> rec]

\* --------------------------------------------------------- TypesContainer
\* a resolver function, by where it comes from
Resolver(kind, owner, name) == [kind |-> kind, owner |-> owner, name |-> name]

NoResolver == Resolver("none", NoRef, "")

\* resolve_for_subscription
resolve_for_subscription == Resolver("identity", NoRef, "")

\* functools.partial(default_resolver(), name, default_value)
DefaultResolver(name) == Resolver("default", NoRef, name)

\* getattr(cls, func_name, None) is a function defined in the class body
HasMethod(ts, t, func_name) ==
    /\ HasKey(ts[t].namespace, func_name)
    /\ Lookup(ts[t].namespace, func_name) = Function

\* lines 103-111: the first interface that declares the field and has the
\* method
RECURSIVE InterfaceResolver(_, _, _, _)
InterfaceResolver(ts, interfaces, func_name, field_name) ==
    IF interfaces = <<>> THEN NoResolver
    ELSE LET interface == Head(interfaces)
         IN  IF ~HasKey(ts[interface].fields, field_name)
             THEN InterfaceResolver(ts, Tail(interfaces), func_name, field_name)
             ELSE IF HasMethod(ts, interface, func_name)
             THEN Resolver("method", interface, func_name)
             ELSE InterfaceResolver(ts, Tail(interfaces), func_name, field_name)

\* TypesContainer._get_field_resolver
get_field_resolver(ts, graphene_type, func_name, field_name) ==
    IF ts[graphene_type].kind # "ObjectType" THEN NoResolver
    ELSE IF HasMethod(ts, graphene_type, func_name)
    THEN Resolver("method", graphene_type, func_name)
    ELSE InterfaceResolver(ts, ts[graphene_type].interfaces, func_name, field_name)

\* a or b, for resolvers
OrElse(a, b) == IF a # NoResolver THEN a ELSE b

\* Field.wrap_resolve with the two operands the other way round
wrap_resolve_parent_first(field_obj, parent_resolver) ==
    IF parent_resolver # NoResolver THEN parent_resolver
    ELSE IF field_obj.resolver # None
    THEN Resolver("explicit", NoRef, field_obj.resolver)
    ELSE NoResolver

\* Field.wrap_resolve: self.resolver or parent_resolver
wrap_resolve(field_obj, parent_resolver) ==
    IF field_obj.resolver # None
    THEN Resolver("explicit", NoRef, field_obj.resolver)
    ELSE parent_resolver

\* Field.wrap_subscribe
wrap_subscribe(field_obj, parent) == parent

\* TypesContainer._get_name
get_name(name) == name

\* the container while a call runs: the dict itself, the native objects
\* built so far, the pending exception and the value returned
Container(m, n) == [memo |-> m, natives |-> n, err |-> None, out |-> NoRef]

\* dict.get(name)
Get(m, name) == IF HasKey(m, name) THEN Lookup(m, name) ELSE NoRef

\* the static methods every scalar inherits from Scalar
ScalarMethods == {"parse_literal", "resolve_value"}

\* getattr(value, name, None) on a scalar class: its own static method,
\* the one inherited from Scalar (owner NoRef), or None
GetStatic(ts, value, name) ==
    IF HasKey(ts[value].namespace, name)
    THEN Resolver("method", value, name)
    ELSE IF name \in ScalarMethods THEN Resolver("method", NoRef, name)
    ELSE NoResolver

\* TypesContainer.translate_scalar
translate_scalar(ts, c, value) ==
    IF ts[value].name = "String" THEN [c EXCEPT !.out = GraphQLString]
    ELSE IF ts[value].name = "Integer" THEN [c EXCEPT !.out = GraphQLInt]
    ELSE LET native == [name |-> ts[value].name, graphene_type |-> value,
                        kind |-> "scalar", fields |-> <<>>,
                        serialize |-> GetStatic(ts, value, "serialize"),
                        parse_value |-> GetStatic(ts, value, "parse_value"),
                        parse_literal |-> GetStatic(ts, value, "parse_literal")]
         IN  [c EXCEPT !.natives = Append(@, native),
                       !.out = Len(c.natives) + 1]

RECURSIVE add_to_self(_, _, _, _)
RECURSIVE BuildArgs(_, _, _, _, _)
RECURSIVE TranslateFieldsLoop(_, _, _, _, _, _)

\* lines 153-162: the native argument map of one field; acc.built is the
\* map so far, acc.last the loop variable `name` as the loop leaves it
BuildArgs(ts, h, c, arguments, acc) ==
    IF arguments = <<>> \/ c.err # None THEN [c |-> c, acc |-> acc]
    ELSE CHOOSE built \in
            {LET name == Head(arguments)[1]
                 arg == h[Head(arguments)[2]]
             IN  IF c2.err # None THEN [c |-> c2, acc |-> acc]
                 ELSE IF arg.name = None
                 THEN \* self.get_name does not exist on the container
                      [c |-> [c2 EXCEPT !.err = "AttributeError"], acc |-> acc]
                 ELSE BuildArgs(ts, h, c2, Tail(arguments),
                         [built |-> DictSet(acc.built, arg.name, [type |-> c2.out]),
                          last |-> name]) :
             c2 \in {add_to_self(ts, h, c, h[Head(arguments)[2]].field_type)}} : TRUE

\* one native output field, lines 141-206; `name` is rebound by the
\* argument loop before the resolvers are looked up
TranslateField(ts, h, c, graphene_type, key, field_obj) ==
    CHOOSE translated \in UNION
        {{LET name == a.acc.last
              subscribe == wrap_subscribe(field_obj,
                              get_field_resolver(ts, graphene_type,
                                                 "subscribe_" \o name, name))
              d1 == IF subscribe # NoResolver THEN resolve_for_subscription
                    ELSE NoResolver
              field_default_resolver ==
                    IF ts[graphene_type].kind = "ObjectType"
                    THEN DefaultResolver(name) ELSE d1
              func_resolver == get_field_resolver(ts, graphene_type,
                                                  "resolve_" \o name, name)
              partial_resolver == wrap_resolve(field_obj,
                                     OrElse(func_resolver, field_default_resolver))
              field_name == IF field_obj.name # None THEN field_obj.name
                            ELSE get_name(name)
              final_field == [type |-> c1.out, args |-> a.acc.built,
                              resolve |-> partial_resolver, subscribe |-> subscribe]
          IN  [c |-> a.c, field_name |-> field_name, final_field |-> final_field] :
          a \in {BuildArgs(ts, h, c1, field_obj.arguments,
                           [built |-> <<>>, last |-> key])}} :
         c1 \in {add_to_self(ts, h, c, field_obj.field_type)}} : TRUE

TranslateFieldsLoop(ts, h, c, graphene_type, entries, final_fields) ==
    IF entries = <<>> \/ c.err # None THEN [c |-> c, fields |-> final_fields]
    ELSE CHOOSE looped \in
            {IF r.c.err # None THEN [c |-> r.c, fields |-> final_fields]
             ELSE TranslateFieldsLoop(ts, h, r.c, graphene_type, Tail(entries),
                     DictSet(final_fields, r.field_name, r.final_field)) :
             r \in {TranslateField(ts, h, c, graphene_type, Head(entries)[1],
                                   h[Head(entries)[2]])}} : TRUE

\* TypesContainer._translate_fields(graphene_type)
translate_fields(ts, h, c, graphene_type) ==
    TranslateFieldsLoop(ts, h, c, graphene_type, ts[graphene_type].fields, <<>>)

\* TypesContainer.translate_objecttype: the fields are translated before
\* the native object exists
translate_objecttype(ts, h, c, graphene_type) ==
    CHOOSE translated \in
        {LET native == [name |-> ts[graphene_type].name,
                        graphene_type |-> graphene_type,
                        kind |-> "object", fields |-> r.fields]
         IN  IF r.c.err # None THEN r.c
             ELSE [r.c EXCEPT !.natives = Append(@, native),
                              !.out = Len(r.c.natives) + 1] :
         r \in {translate_fields(ts, h, c, graphene_type)}} : TRUE

\* TypesContainer.add_to_self
add_to_self(ts, h, c, graphene_type) ==
    IF c.err # None THEN c
    ELSE IF graphene_type = NoRef THEN [c EXCEPT !.out = NoRef]
    ELSE IF graphene_type < 0
    THEN \* an instance, NonNull(String): _meta.name is the name of its
         \* class, and issubclass(instance, Scalar) raises
         LET graphql_type == Get(c.memo, h[0 - graphene_type].cls)
         IN  IF graphql_type # NoRef THEN [c EXCEPT !.out = graphql_type]
             ELSE [c EXCEPT !.err = "TypeError"]
    ELSE LET name == ts[graphene_type].name
             graphql_type == Get(c.memo, name)
         IN  IF graphql_type # NoRef THEN [c EXCEPT !.out = graphql_type]
             ELSE CHOOSE added \in
                    {IF r.err # None THEN [r EXCEPT !.out = NoRef]
                     ELSE [r EXCEPT !.memo = DictSet(r.memo, name, r.out)] :
                     r \in {IF ts[graphene_type].kind = "Scalar"
                            THEN translate_scalar(ts, c, graphene_type)
                            ELSE IF ts[graphene_type].kind = "ObjectType"
                            THEN translate_objecttype(ts, h, c, graphene_type)
                            ELSE [c EXCEPT !.err = "ValueError"]}} : TRUE

\* ------------------------------------------------------------ the program
ArgKeys == {"a", "b"}
ClassNames == {"A", "B"}
InterfaceNames == {"I", "J"}

Init ==
    /\ heap = <<>>
    /\ types = <<BaseTypeRec("Scalar", "String"), BaseTypeRec("Scalar", "Integer")>>
    /\ memo = <<>>
    /\ natives = <<>>
    /\ lazy_calls = [declaration |-> 0, translation |-> 0]
    /\ lastOp = "init"
    /\ lastOut = NoRef
    /\ err = None
    /\ input = None

\* a constructor call: the heap it leaves, the object it returns or the
\* exception it raises
Constructed(op, m) ==
    /\ m.calls <= MaxLazyCalls
    /\ heap' = m.heap
    /\ lazy_calls' = [lazy_calls EXCEPT !.declaration = m.calls]
    /\ lastOp' = op
    /\ lastOut' = m.oid
    /\ err' = m.err
    /\ UNCHANGED <<input, types, memo, natives>>

\* x = Argument(field_type, name=name)
NewArgument(field_type, name) ==
    Constructed("Argument",
        Made(Append(heap, Argument(field_type, name)), Len(heap) + 1,
             None, lazy_calls.declaration))

\* x = String(**kwargs)
NewImplicit(field_type, kwargs) ==
    Constructed("Implicit",
        Made(Append(heap, ImplicitField(field_type, kwargs)), Len(heap) + 1,
             None, lazy_calls.declaration))

\* x = Dynamic(lambda: target)
NewDynamic(target) ==
    Constructed("Dynamic",
        Made(Append(heap, Dynamic(target)), Len(heap) + 1,
             None, lazy_calls.declaration))

\* x = Field(field_type, args=args, name=name, resolver=resolver, **extra_args)
NewField(field_type, args, extra_args, name, resolver) ==
    Constructed("Field",
        FieldInit(types, heap, lazy_calls.declaration, field_type,
                  args, extra_args, name, resolver))

\* class name(ObjectType) / class name(Interface): the body is the
\* namespace in declaration order, interfaces is Meta.interfaces
DeclareType(kind, name, body, interfaces) ==
    \E r \in {BaseObjectType_new(types, heap, lazy_calls.declaration, kind, name,
                                  <<<<"__module__", Other>>>> \o body,
                                  interfaces)} :
        /\ r.calls <= MaxLazyCalls
        /\ heap' = r.heap
        /\ lazy_calls' = [lazy_calls EXCEPT !.declaration = r.calls]
        /\ types' = IF r.err = None THEN Append(types, r.rec) ELSE types
        /\ lastOp' = "class"
        /\ lastOut' = IF r.err = None THEN Len(types) + 1 ELSE NoRef
        /\ err' = r.err
        /\ UNCHANGED <<input, memo, natives>>

\* container.add_to_self(graphene_type) on the one container
AddToSelf(graphene_type) ==
    \E r \in {add_to_self(types, heap, Container(memo, natives), graphene_type)} :
        /\ memo' = r.memo
        /\ natives' = r.natives
        /\ lastOp' = "add_to_self"
        /\ lastOut' = r.out
        /\ err' = r.err
        /\ UNCHANGED <<input, heap, types, lazy_calls>>

\* ------------------------------------------------------------- the inputs
OidsOf(classes) == {o \in DOMAIN heap : heap[o].cls \in classes}

\* argument mappings of at most two entries with distinct keys
Entries(keys, oids) ==
    {<<>>} \cup {<<<<k, o>>>> : k \in keys, o \in oids}
           \cup {e \in {<<<<k1, o1>>, <<k2, o2>>>> :
                         k1 \in keys, k2 \in keys, o1 \in oids, o2 \in oids} :
                    e[1][1] # e[2][1]}

\* the methods a class body may define after its fields
Methods == {<<>>, <<<<"resolve_f", Function>>>>}

\* class bodies: f, then optionally g, constructed in that order
Bodies(oids) ==
    {<<>>} \cup {<<<<"f", o>>>> : o \in oids}
           \cup {b \in {<<<<"f", o1>>, <<"g", o2>>>> : o1 \in oids, o2 \in oids} :
                    b[1][2] < b[2][2]}

InterfaceLists ==
    LET is == {t \in DOMAIN types : types[t].kind = "Interface"}
    IN  {<<>>} \cup {<<i>> : i \in is}
               \cup {l \in {<<i, j>> : i \in is, j \in is} : l[1] # l[2]}

\* the objects no class body and no field refers to yet
Values(d) == {d[i][2] : i \in DOMAIN d}

Fresh ==
    {o \in DOMAIN heap :
        /\ \A t \in DOMAIN types :
              o \notin Values(types[t].namespace) \cup Values(types[t].fields)
        /\ \A x \in DOMAIN heap :
              o \notin Values(heap[x].args) \cup Values(heap[x].extra_args)
                       \cup Values(heap[x].arguments)}

\* every name is bound by one class statement, the interfaces I then J
\* first, the object types A then B after them
Unbound(name) == Bound(types, name) = NoRef

DeclaredInOrder(name) ==
    /\ Unbound(name)
    /\ name = "J" => ~Unbound("I")
    /\ name = "B" => ~Unbound("A")
    /\ name \in InterfaceNames => \A n \in ClassNames : Unbound(n)

\* the container has not been asked for anything yet
Declaring == memo = <<>> /\ lastOp # "add_to_self"

\* declarations, then the container: an object is built for the field or
\* the class body that uses it next, and the types are all declared by the
\* time the container translates the first of them
Next ==
    \/ /\ Declaring
       /\ Fresh = {}
       /\ NewImplicit(StringT, <<>>)
       /\ Len(heap') <= MaxObjs
    \/ /\ Declaring
       /\ \E t \in DOMAIN types \ {IntegerT},
             extra \in Entries({"a"}, OidsOf({"Implicit"})) :
            /\ Len(extra) <= 1
            /\ extra # <<>> => t = StringT
            /\ Fresh \subseteq Values(extra)
            /\ NewField(t, <<>>, extra, None, None)
       /\ Len(heap') <= MaxObjs
    \/ /\ Declaring
       /\ Len(types) < MaxTypes
       /\ \E name \in ClassNames, body \in Bodies(OidsOf({"Implicit", "Field"})),
             m \in Methods :
            /\ Len(body) = 1
            /\ name = "B" => ~Unbound("A")
            /\ DeclareType("ObjectType", name, body \o m, <<>>)
       /\ Len(heap') <= MaxObjs
    \/ \E t \in DOMAIN types \ {IntegerT} : AddToSelf(t)

Spec == Init /\ [][Next]_vars

\* class statements only: object types with implicit, explicit and Dynamic
\* attributes
NextDecl ==
    \/ /\ Cardinality(Fresh) <= 1
       /\ NewImplicit(StringT, <<>>)
       /\ Len(heap') <= MaxDeclObjs
    \/ /\ Cardinality(Fresh) <= 1
       /\ \E target \in ClassNames : NewDynamic(target)
       /\ Len(heap') <= MaxDeclObjs
    \/ /\ Cardinality(Fresh) <= 1
       /\ NewField(StringT, <<>>, <<>>, None, None)
       /\ Len(heap') <= MaxDeclObjs
    \/ /\ \E name \in ClassNames,
             body \in Bodies(OidsOf({"Implicit", "Field", "Dynamic"})) :
            /\ DeclaredInOrder(name)
            /\ DeclareType("ObjectType", name, body, <<>>)
       /\ Len(heap') <= MaxDeclObjs

SpecDecl == Init /\ [][NextDecl]_vars

\* interfaces and the object types that list them
NextIface ==
    \/ /\ Cardinality(Fresh) <= 1
       /\ NewImplicit(StringT, <<>>)
       /\ Len(heap') <= MaxIfaceObjs
    \/ /\ Cardinality(Fresh) <= 1
       /\ \E t \in {StringT, IntegerT} : NewField(t, <<>>, <<>>, None, None)
       /\ Len(heap') <= MaxIfaceObjs
    \/ /\ \E name \in InterfaceNames, body \in Bodies(OidsOf({"Implicit", "Field"})) :
            /\ DeclaredInOrder(name)
            /\ DeclareType("Interface", name, body, <<>>)
       /\ Len(heap') <= MaxIfaceObjs
    \/ /\ \E body \in Bodies(OidsOf({"Implicit", "Field"})),
             interfaces \in InterfaceLists :
            /\ DeclaredInOrder("A")
            /\ DeclareType("ObjectType", "A", body, interfaces)
       /\ Len(heap') <= MaxIfaceObjs

SpecIface == Init /\ [][NextIface]_vars

\* the inputs of the Field constructor in SpecArgs
FieldArgs == Entries(ArgKeys, OidsOf({"Argument", "Implicit", "Dynamic"}))

FieldExtraArgs == {e \in Entries({"a"}, OidsOf({"Implicit"})) : Len(e) <= 1}

\* field constructors only: the argument objects are built first, kind by
\* kind, then the fields that take them as arguments
Rank(o) == IF o.cls = "Argument" THEN (IF o.name = None THEN 1 ELSE 2)
           ELSE IF o.cls = "Implicit" THEN 3 ELSE 4

InOrder(rank) ==
    /\ \A o \in DOMAIN heap : heap[o].cls # "Field"
    /\ heap # <<>> => Rank(heap[Len(heap)]) <= rank

NextArgs ==
    \/ /\ \E name \in {None, "b"} :
            InOrder(IF name = None THEN 1 ELSE 2) /\ NewArgument(StringT, name)
       /\ Len(heap') <= MaxArgObjs
    \/ /\ InOrder(3)
       /\ NewImplicit(StringT, <<>>)
       /\ Len(heap') <= MaxArgObjs
    \/ /\ InOrder(4)
       /\ \E target \in {None, "String"} : NewDynamic(target)
       /\ Len(heap') <= MaxArgObjs
    \/ /\ \E args \in FieldArgs, extra_args \in FieldExtraArgs :
            NewField(StringT, args, extra_args, None, None)
       /\ Len(heap') <= MaxArgObjs

SpecArgs == Init /\ [][NextArgs]_vars

\* ------------------------------------------------------------ properties
UserTypes(kind) == {t \in DOMAIN types : types[t].kind = kind}

\* the field names a class body declares itself
OwnFields(t) == filter_fields(types[t].namespace)

\* the field objects of a class body, in declaration order
Declared(t) ==
    SelectSeq(OwnFields(t), LAMBDA e : e[2] > 0)

\* C1: every add_to_self call for a type of a given name returns the same
\* native object, and a name once mapped in the memo is never mapped to
\* another native object.  Every native object was stored under its name
\* by the call that built it, so the memo must still map that name to it.
C1_NameNeverRemapped ==
    \A n \in DOMAIN natives : Get(memo, natives[n].name) = n

\* C2: declaring object types that refer to each other through
\* Dynamic(lambda: ...) attributes succeeds: the class statement raises no
\* unresolved-reference error.
C2_MutualDynamicDeclares ==
    lastOp = "class" => err # "NameError"

\* C3: while types are being declared no lazy callable of a Dynamic is
\* invoked.
C3_LazyNotRunAtDeclaration ==
    lazy_calls.declaration = 0

\* C4: when T lists interface I and both declare a field of the same name,
\* T._meta.fields maps the name to T's own descriptor and not to I's.
C4_OwnFieldWins ==
    \A t \in UserTypes("ObjectType") :
      \A k \in DOMAIN types[t].interfaces :
        LET i == types[t].interfaces[k]
        IN  \A n \in Range(DictKeys(Declared(t))) :
              HasKey(types[i].fields, n) =>
                LET own == Lookup(OwnFields(t), n)
                    got == Lookup(types[t].fields, n)
                IN  /\ heap[own].cls = "Field" => got = own
                    /\ own # Lookup(types[i].fields, n)
                          => got # Lookup(types[i].fields, n)

\* what a descriptor is configured with
Configuration(o) ==
    <<heap[o].field_type, heap[o].name, heap[o].resolver, heap[o].arguments>>

\* the interfaces T lists that declare the name n, in listing order
ListedDeclaring(t, n) ==
    SelectSeq(types[t].interfaces, LAMBDA i : HasKey(types[i].fields, n))

\* the names T takes from its interfaces only
Inherited(t) ==
    {n \in UNION {Range(DictKeys(types[types[t].interfaces[k]].fields)) :
                     k \in DOMAIN types[t].interfaces} :
        ~HasKey(OwnFields(t), n)}

C6_ArgumentFieldUsesItsMethod ==
    \A n \in DOMAIN natives :
      LET T == natives[n].graphene_type
      IN  \A k \in DOMAIN types[T].fields :
            LET f == types[T].fields[k][1]
                field_obj == heap[types[T].fields[k][2]]
            IN  (/\ field_obj.arguments # <<>>
                 /\ field_obj.resolver = None
                 /\ HasMethod(types, T, "resolve_" \o f))
                => /\ HasKey(natives[n].fields, f)
                   /\ Lookup(natives[n].fields, f).resolve
                        = Resolver("method", T, "resolve_" \o f)

\* C7: the field descriptors constructed one after the other in a class
\* body have strictly increasing creation_counter values, whether read on
\* the declared objects or on the mounted fields, and _meta.fields iterates
\* in declaration order.
C7_CountersIncrease ==
    \A t \in UserTypes("ObjectType") \cup UserTypes("Interface") :
      (types[t].interfaces = <<>> /\ Len(Declared(t)) = Len(types[t].fields)) =>
        /\ DictKeys(types[t].fields) = DictKeys(Declared(t))
        /\ \A i, j \in DOMAIN Declared(t) :
             i < j =>
               \/ heap[Declared(t)[i][2]].creation_counter
                    < heap[Declared(t)[j][2]].creation_counter
               \/ heap[types[t].fields[i][2]].creation_counter
                    < heap[types[t].fields[j][2]].creation_counter

\* an entry of a field's args / extra_args that resolves to no type
Unresolved(h, e) ==
    /\ h[e[2]].cls = "Dynamic"
    /\ ~LazyRaises(types, h[e[2]].lazy)
    /\ LazyResult(types, h[e[2]].lazy) = NoRef

\* the entries a field was constructed with, without the unresolved ones
Entered(x) ==
    SelectSeq(heap[x].args \o heap[x].extra_args, LAMBDA e : ~Unresolved(heap, e))

\* the effective name of an entry: the name its Argument was constructed
\* with, else the key it is declared under
EffectiveName(e) ==
    IF heap[e[2]].cls = "Argument" /\ heap[e[2]].given_name # None
    THEN heap[e[2]].given_name ELSE e[1]

Fields == {x \in DOMAIN heap : heap[x].cls = "Field"}

\* C8: no field is constructed, and so no argument map produced, from
\* entries two of which have the same effective name.
C8_DuplicateNameRejected ==
    \A x \in Fields :
      \A i, j \in DOMAIN Entered(x) :
        i # j => EffectiveName(Entered(x)[i]) # EffectiveName(Entered(x)[j])

\* C9: in the argument map of a field every Argument or implicit-field
\* entry is found under its effective name.
C9_KeyedByEffectiveName ==
    \A x \in Fields :
      \A i \in DOMAIN Entered(x) :
        LET e == Entered(x)[i]
        IN  heap[e[2]].cls \in {"Argument", "Implicit"} =>
              /\ HasKey(heap[x].arguments, EffectiveName(e))
              /\ heap[e[2]].cls = "Argument"
                    => Lookup(heap[x].arguments, EffectiveName(e)) = e[2]

\* C10: constructing a field skips the entries whose Dynamic resolves to
\* no type: the call raises exactly when it raises without them, and
\* otherwise returns the argument map built from the other entries, each
\* of which is in it.
C10_Step ==
    \A args \in {a \in FieldArgs : \E i \in DOMAIN a : Unresolved(heap, a[i])},
       extra_args \in FieldExtraArgs :
      NewField(StringT, args, extra_args, None, None) =>
        LET kept == SelectSeq(args \o extra_args, LAMBDA e : ~Unresolved(heap, e))
            want == FieldInit(types, heap, lazy_calls.declaration, StringT,
                              kept, <<>>, None, None)
        IN  /\ err' = want.err
            /\ err' = None =>
                 LET arguments == heap'[lastOut'].arguments
                 IN  /\ arguments = want.heap[want.oid].arguments
                     /\ Len(arguments) = Len(kept)
                     /\ \A i \in DOMAIN kept :
                          IF heap[kept[i][2]].cls = "Argument"
                          THEN kept[i][2] \in Values(arguments)
                          ELSE HasKey(arguments, kept[i][1])

C10_UnresolvedDynamicSkipped == [][C10_Step]_vars

\* a field constructed from an unresolved Dynamic and an Argument, with the
\* Argument alone in its map
C10_Witness ==
    /\ lastOp = "Field"
    /\ err = None
    /\ \E i, j \in DOMAIN heap[lastOut].args :
         LET args == heap[lastOut].args
         IN  /\ heap[args[i][2]].cls = "Dynamic"
             /\ heap[args[i][2]].lazy = None
             /\ heap[args[j][2]].cls = "Argument"
             /\ Values(heap[lastOut].arguments) = {args[j][2]}

\* =================================================== Meta blocks and bases
MaxClassObjs == 4

\* BaseOptions.accepted_keys
accepted_keys == {"name", "description", "interfaces", "abstract"}

\* key.startswith('__') for the attribute names that occur in a Meta block
StartsWithDunder(key) == key \in {"__module__", "__qualname__", "__doc__"}

\* a check that would skip every key with a leading underscore
check_meta_options_underscore(keys) ==
    {k \in keys : ~StartsWithDunder(k) /\ k # "_private"} \ accepted_keys

\* BaseOptions.check_meta_options: the invalid keys; it raises when there
\* is one
check_meta_options(keys) ==
    {k \in keys : ~StartsWithDunder(k)} \ accepted_keys

\* the loop over BaseOptions.set_meta_option: only accepted keys are set
set_meta_option(user_meta) ==
    SelectSeq(user_meta, LAMBDA e : e[1] \in accepted_keys)

\* the class statement `class name(bases)` whose body holds a Meta block:
\* BaseObjectType.__new__ pops Meta from the namespace and checks its keys
\* before any field is built; nothing in it reads the fields of the bases
BaseObjectType_new_meta(ts, h, calls, kind, name, bases, namespace, user_meta) ==
    IF check_meta_options(Range(DictKeys(user_meta))) # {}
    THEN [heap |-> h, err |-> "InvalidMetaOptionsError", calls |-> calls,
          rec |-> [kind |-> kind, name |-> name, fields |-> <<>>,
                   namespace |-> namespace, interfaces |-> <<>>,
                   bases |-> bases, meta |-> <<>>]]
    ELSE CHOOSE made \in
            {[heap |-> r.heap, err |-> r.err, calls |-> r.calls,
              rec |-> [kind |-> kind, name |-> name, fields |-> r.rec.fields,
                       namespace |-> namespace,
                       interfaces |-> r.rec.interfaces,
                       bases |-> bases, meta |-> set_meta_option(user_meta)]] :
             r \in {BaseObjectType_new(ts, h, calls, kind, name, namespace,
                        IF HasKey(user_meta, "interfaces")
                        THEN Lookup(user_meta, "interfaces") ELSE <<>>)}} : TRUE

\* class name(bases): body, with `class Meta` holding user_meta
ClassStatement(kind, name, bases, body, user_meta) ==
    \E r \in {BaseObjectType_new_meta(types, heap, lazy_calls.declaration, kind,
                                       name, bases,
                                       <<<<"__module__", Other>>>> \o body,
                                       user_meta)} :
        /\ r.calls <= MaxLazyCalls
        /\ heap' = r.heap
        /\ lazy_calls' = [lazy_calls EXCEPT !.declaration = r.calls]
        /\ types' = IF r.err = None THEN Append(types, r.rec) ELSE types
        /\ lastOp' = "class"
        /\ lastOut' = IF r.err = None THEN Len(types) + 1 ELSE NoRef
        /\ err' = r.err
        /\ UNCHANGED <<input, memo, natives>>

\* the Meta blocks the class statements are given: none, valid options, a
\* dunder attribute, and invalid keys with and without a leading underscore
Metas ==
    {<<>>,
     <<<<"abstract", TRUE>>>>,
     <<<<"description", "d">>>>,
     <<<<"__doc__", "d">>>>,
     <<<<"bogus", 1>>>>,
     <<<<"_private", 1>>>>,
     <<<<"abstract", TRUE>>, <<"bogus", 1>>>>}

\* the parent P declares f, the type D declares g
ParentNames == {"P", "D"}

ClassBodies(name, oids) ==
    {<<>>} \cup {<<<<IF name = "P" THEN "f" ELSE "g", o>>>> : o \in oids}

\* D is declared after P, as a plain object type or as a subclass of P
ClassBases(name) ==
    IF name = "P" THEN {<<>>} ELSE {<<>>, <<Bound(types, "P")>>}

ClassInOrder(name) ==
    /\ Unbound(name)
    /\ name = "D" => ~Unbound("P")

NextClass ==
    \/ /\ Cardinality(Fresh) <= 0
       /\ NewImplicit(StringT, <<>>)
       /\ Len(heap') <= MaxClassObjs
    \/ /\ \E name \in ParentNames, user_meta \in Metas :
          \E bases \in ClassBases(name),
             body \in ClassBodies(name, Fresh) :
            /\ ClassInOrder(name)
            /\ ClassStatement("ObjectType", name, bases, body, user_meta)
       /\ Len(heap') <= MaxClassObjs

SpecClass == Init /\ [][NextClass]_vars

\* the invalid keys of a Meta block: outside the accepted four and not a
\* dunder attribute
InvalidKeys(user_meta) ==
    {k \in Range(DictKeys(user_meta)) :
        k \notin {"name", "description", "interfaces", "abstract"}
        /\ k \notin {"__module__", "__qualname__", "__doc__"}}

C11_Step ==
    \A name \in ParentNames, user_meta \in Metas :
      \A bases \in ClassBases(name), body \in ClassBodies(name, Fresh) :
        (/\ InvalidKeys(user_meta) # {}
         /\ ClassStatement("ObjectType", name, bases, body, user_meta))
        => /\ err' = "InvalidMetaOptionsError"
           /\ lastOut' = NoRef
           /\ types' = types
           /\ heap' = heap

Parent(t) == IF types[t].bases = <<>> THEN NoRef ELSE types[t].bases[1]

IsAbstract(t) == HasKey(types[t].meta, "abstract") /\ Lookup(types[t].meta, "abstract")

\* C12: a class statement that declares a field while subclassing an object
\* type that has own fields and is not marked abstract raises, so no
\* declared type is such a subclass.
C12_ConcreteParentRejected ==
    \A t \in UserTypes("ObjectType") :
        (/\ Parent(t) # NoRef
         /\ Declared(t) # <<>>
         /\ Declared(Parent(t)) # <<>>)
        => IsAbstract(Parent(t))

\* C13: a declared object type that subclasses another has, in its own
\* _meta.fields, every field of the parent and every field it declares.
C13_ParentFieldsInherited ==
    \A t \in UserTypes("ObjectType") :
        Parent(t) # NoRef =>
            /\ \A i \in DOMAIN types[Parent(t)].fields :
                  HasKey(types[t].fields, types[Parent(t)].fields[i][1])
            /\ \A i \in DOMAIN Declared(t) :
                  HasKey(types[t].fields, Declared(t)[i][1])

\* ================================== required, source and function inputs
MaxFieldObjs == 2

\* NonNull(field_type): a Structure instance around the class
NonNull(field_type) == [BaseField("NonNull") EXCEPT !.field_type = field_type]

\* an instance standing where a class is expected
Instance(oid) == 0 - oid

\* functools.partial(source_resolver, source)
SourcePartial(source) == "partial(source_resolver, " \o source \o ")"

\* Field.__init__ with resolver, source and required: both source and
\* resolver raise before anything is assigned; required wraps the class in
\* a NonNull instance; source replaces the resolver last
Field_init(ts, h, calls, field_type, args, extra_args, name, resolver, source, required) ==
    IF source # None /\ resolver # None
    THEN Made(h, NoRef, "ValueError", calls)
    ELSE LET h1 == IF required THEN Append(h, NonNull(field_type)) ELSE h
             wrapped == IF required THEN Instance(Len(h1)) ELSE field_type
             r == FieldInit(ts, h1, calls, wrapped, args, extra_args, name, resolver)
         IN  IF r.err # None \/ source = None THEN r
             ELSE [r EXCEPT !.heap[r.oid].resolver = SourcePartial(source)]

\* x = Field(field_type, resolver=resolver, source=source, required=required)
NewFieldFull(field_type, resolver, source, required) ==
    Constructed("Field",
        Field_init(types, heap, lazy_calls.declaration, field_type,
                   <<>>, <<>>, None, resolver, source, required))

\* a declared class as a returned value, below the builtin native types
ClassRef(t) == IF t = NoRef THEN NoRef ELSE GraphQLInt - t

\* container.add_to_self(lambda: <the class bound to target>): lines
\* 238-239, inspect.isfunction(graphene_type) returns graphene_type()
AddToSelfFunction(target) ==
    /\ lazy_calls.translation < MaxLazyCalls
    /\ lazy_calls' = [lazy_calls EXCEPT !.translation = @ + 1]
    /\ lastOp' = "add_to_self"
    /\ lastOut' = IF LazyRaises(types, target) THEN NoRef
                  ELSE ClassRef(LazyResult(types, target))
    /\ err' = IF LazyRaises(types, target) THEN "NameError" ELSE None
    /\ UNCHANGED <<input, heap, types, memo, natives>>

\* what the user functions return: a resolve_<field> method, a resolver=
\* function
MethodValue == 21
ResolverValue == 22

\* the parent values: objects with the attributes s and f, or f only
Roots == {[s |-> 11, f |-> 12], [f |-> 12]}

\* getattr(root, name, default_value) with default_value = None
attribute_resolver(name, root) ==
    IF name \in DOMAIN root THEN root[name] ELSE NoRef

\* source_resolver(source, root, info): its body is `pass`
source_resolver(source, root) == NoRef

Sources == {"s"}

\* resolve(root, info) of a native field
CallResolver(resolver, root) ==
    IF resolver.kind = "default" THEN attribute_resolver(resolver.name, root)
    ELSE IF resolver.kind = "method" THEN MethodValue
    ELSE IF resolver.kind = "explicit"
    THEN IF \E s \in Sources : resolver.name = SourcePartial(s)
         THEN source_resolver(CHOOSE s \in Sources : resolver.name = SourcePartial(s),
                              root)
         ELSE ResolverValue
    ELSE NoRef

\* the engine resolves the field `key` of the native object type n on the
\* parent value root
ResolveField(n, key, root) ==
    /\ n \in DOMAIN natives
    /\ natives[n].kind = "object"
    /\ HasKey(natives[n].fields, key)
    /\ lastOp' = "resolve"
    /\ lastOut' = CallResolver(Lookup(natives[n].fields, key).resolve, root)
    /\ err' = None
    /\ UNCHANGED <<input, heap, types, memo, natives, lazy_calls>>

\* one field, the class A that declares it as f, then the container
NextField ==
    \/ /\ heap = <<>>
       /\ \E resolver \in {None, "r"}, source \in {None} \cup Sources,
             required \in BOOLEAN :
            NewFieldFull(StringT, resolver, source, required)
       /\ Len(heap') <= MaxFieldObjs
    \/ /\ \E o \in OidsOf({"Field"}), m \in Methods :
            /\ Unbound("A")
            /\ DeclareType("ObjectType", "A", <<<<"f", o>>>> \o m, <<>>)
       /\ Len(heap') <= MaxFieldObjs
    \/ \E t \in DOMAIN types \ {IntegerT} : AddToSelf(t)
    \/ \E target \in {"A", "String"} : AddToSelfFunction(target)
    \/ \E n \in DOMAIN natives, root \in Roots : ResolveField(n, "f", root)

SpecField == Init /\ [][NextField]_vars

\* the object types one of whose fields was declared with required=True
HasRequiredField(t) ==
    \E i \in DOMAIN types[t].fields :
        /\ heap[types[t].fields[i][2]].field_type < 0
        /\ heap[0 - heap[types[t].fields[i][2]].field_type].cls = "NonNull"

C14_Step ==
    \A t \in UserTypes("ObjectType") :
        (HasRequiredField(t) /\ AddToSelf(t)) =>
            /\ err' = None
            /\ lastOut' \in DOMAIN natives'
            /\ \A i \in DOMAIN types[t].fields :
                 LET field_obj == heap[types[t].fields[i][2]]
                     native == Lookup(natives'[lastOut'].fields, types[t].fields[i][1])
                 IN  field_obj.field_type < 0 =>
                        /\ native.type \in DOMAIN natives'
                        /\ natives'[native.type].kind = "non_null"

\* C14: a field declared with required=True holds a NonNull wrapper around
\* its base type, and translating the type that declares it gives a native
\* field whose type is a native non-null wrapper.
C14_RequiredTranslatesToNonNull == [][C14_Step]_vars

C15_Step ==
    \A target \in {"A", "String"} :
        (~Unbound(target) /\ AddToSelfFunction(target)) =>
            LET direct == add_to_self(types, heap, Container(memo, natives),
                                      Bound(types, target))
            IN  /\ lazy_calls'.translation = lazy_calls.translation + 1
                /\ direct.err = None =>
                     /\ err' = None
                     /\ lastOut' = direct.out
                     /\ Get(memo', target) = direct.out

\* C15: add_to_self given a zero-argument function calls it once and
\* returns what add_to_self returns for the function's result: the native
\* type, stored in the memo under its name.
C15_FunctionResultTranslated == [][C15_Step]_vars

C18_Step ==
    \A n \in DOMAIN natives, root \in Roots, s \in Sources :
        (/\ s \in DOMAIN root
         /\ ResolveField(n, "f", root)
         /\ LET t == natives[n].graphene_type
            IN  heap[Lookup(types[t].fields, "f")].resolver = SourcePartial(s))
        => lastOut' = root[s]

\* C18: a field declared with source=s and no resolver resolves, for every
\* parent value, to the attribute s of that parent, before any resolve_f
\* method and before the default resolver.
C18_SourceResolvesAttribute == [][C18_Step]_vars

\* ================================================================ Schema
MaxSchemaObjs == 5

\* the closure `interfaces` of translate_objecttype (lines 299-303), run
\* when the engine reads the interfaces of the native object type
RECURSIVE InterfacesClosure(_, _, _, _)
InterfacesClosure(ts, h, c, interfaces) ==
    IF interfaces = <<>> \/ c.err # None THEN c
    ELSE CHOOSE added \in
            {InterfacesClosure(ts, h, c2, Tail(interfaces)) :
             c2 \in {add_to_self(ts, h, c, Head(interfaces))}} : TRUE

\* GraphQLSchema(query=...): the engine collects the types referenced from
\* the query type and reads the interfaces of every object type among
\* them, the query type first
RECURSIVE CollectReferencedTypes(_, _, _, _)
CollectReferencedTypes(ts, h, c, n) ==
    IF n = 0 \/ c.err # None THEN c
    ELSE CHOOSE read \in
            {CollectReferencedTypes(ts, h, c2, n - 1) :
             c2 \in {IF c.natives[n].kind = "object"
                     THEN InterfacesClosure(ts, h, c,
                             ts[c.natives[n].graphene_type].interfaces)
                     ELSE c}} : TRUE

\* Schema.__init__: a new TypesContainer translates the query type, then
\* the engine's schema is built from the native query type
Schema_init(ts, h, query) ==
    CHOOSE built \in
        {IF c.err # None THEN c
         ELSE [CollectReferencedTypes(ts, h, c, Len(c.natives))
                 EXCEPT !.out = c.out] :
         c \in {add_to_self(ts, h, Container(<<>>, <<>>), query)}} : TRUE

\* schema = Schema(query=query)
NewSchema(query) ==
    \E r \in {Schema_init(types, heap, query)} :
        /\ memo' = r.memo
        /\ natives' = r.natives
        /\ lastOp' = "Schema"
        /\ lastOut' = IF r.err = None THEN r.out ELSE NoRef
        /\ err' = r.err
        /\ UNCHANGED <<input, heap, types, lazy_calls>>

\* the interface I, the object type A that may list it, the query type B
\* with one field of a declared type, then the schema
NextSchema ==
    \/ /\ Cardinality(Fresh) <= 0
       /\ memo = <<>> /\ lastOp # "Schema"
       /\ \E t \in {StringT, IntegerT} : NewImplicit(t, <<>>)
       /\ Len(heap') <= MaxSchemaObjs
    \/ /\ Cardinality(Fresh) <= 0
       /\ memo = <<>> /\ lastOp # "Schema"
       /\ ~Unbound("A")
       /\ \E t \in {StringT, Bound(types, "A")} :
            NewField(t, <<>>, <<>>, None, None)
       /\ Len(heap') <= MaxSchemaObjs
    \/ /\ memo = <<>> /\ lastOp # "Schema"
       /\ \E body \in ClassBodies("P", Fresh) :
            /\ DeclaredInOrder("I")
            /\ body # <<>>
            /\ DeclareType("Interface", "I", body, <<>>)
       /\ Len(heap') <= MaxSchemaObjs
    \/ /\ memo = <<>> /\ lastOp # "Schema"
       /\ \E name \in ClassNames, body \in ClassBodies("D", Fresh),
             interfaces \in InterfaceLists :
            /\ DeclaredInOrder(name)
            /\ body # <<>>
            /\ name = "B" => interfaces = <<>>
            /\ DeclareType("ObjectType", name, body, interfaces)
       /\ Len(heap') <= MaxSchemaObjs
    \/ /\ memo = <<>> /\ lastOp # "Schema"
       /\ \E query \in UserTypes("ObjectType") : NewSchema(query)

SpecSchema == Init /\ [][NextSchema]_vars

\* the declared types a schema built on `query` reaches through its fields
ListsInterface(t) == types[t].interfaces # <<>>

FieldOfInterfacedType(query) ==
    \E i \in DOMAIN types[query].fields :
        LET field_type == heap[types[query].fields[i][2]].field_type
        IN  /\ field_type \in UserTypes("ObjectType")
            /\ ListsInterface(field_type)

C16_Step ==
    \A query \in UserTypes("ObjectType") :
        (FieldOfInterfacedType(query) /\ NewSchema(query)) =>
            /\ err' = None
            /\ lastOut' \in DOMAIN natives'

\* C16: building a Schema whose query type has a field of an object type
\* that lists an interface in Meta.interfaces succeeds.
C16_InterfaceSchemaBuilds == [][C16_Step]_vars

\* ======================================================== custom scalars
MaxScalars == 4

\* class name(Scalar) with the static methods of `body`
DeclareScalar(name, body) ==
    /\ types' = Append(types, [BaseTypeRec("Scalar", name) EXCEPT !.namespace = body])
    /\ lastOp' = "class"
    /\ lastOut' = Len(types) + 1
    /\ err' = None
    /\ UNCHANGED <<input, heap, memo, natives, lazy_calls>>

\* the values and literals handed to a scalar
ScalarValues == {1, 2}

\* a static method applied to a value: the methods a class body defines
\* are distinct functions, Scalar.resolve_value returns its argument and
\* Scalar.parse_literal raises NotImplementedError
Offset(name) ==
    IF name = "resolve_value" THEN 10
    ELSE IF name = "serialize" THEN 20
    ELSE IF name = "parse_literal" THEN 30
    ELSE 40

NotImplemented == 0 - 1

ApplyStatic(method, v) ==
    IF method.owner # NoRef THEN v + Offset(method.name)
    ELSE IF method.name = "resolve_value" THEN v
    ELSE NotImplemented

\* the native scalar called by the engine: a callable it was not given
\* falls back on the engine's default, which hands the value back
CallNative(callable, v) ==
    IF callable = NoResolver THEN v ELSE ApplyStatic(callable, v)

\* native.serialize(v) / native.parse_literal(v)
ScalarCall(n, member, v) ==
    /\ n \in DOMAIN natives
    /\ natives[n].kind = "scalar"
    /\ lastOp' = member
    /\ lastOut' = CallNative(IF member = "serialize" THEN natives[n].serialize
                             ELSE natives[n].parse_literal, v)
    /\ err' = None
    /\ UNCHANGED <<input, heap, types, memo, natives, lazy_calls>>

\* the static methods a scalar class body may define
ScalarBodies ==
    {<<>>,
     <<<<"resolve_value", Function>>>>,
     <<<<"parse_literal", Function>>>>,
     <<<<"resolve_value", Function>>, <<"parse_literal", Function>>>>,
     <<<<"serialize", Function>>, <<"resolve_value", Function>>>>}

ScalarNames == {"Upper", "Point"}

NextScalar ==
    \/ /\ \E name \in ScalarNames, body \in ScalarBodies :
            /\ Unbound(name)
            /\ name = "Point" => ~Unbound("Upper")
            /\ DeclareScalar(name, body)
       /\ Len(types') <= MaxScalars
    \/ \E t \in DOMAIN types \ {IntegerT} : AddToSelf(t)
    \/ \E n \in DOMAIN natives, member \in {"serialize", "parse_literal"},
          v \in ScalarValues : ScalarCall(n, member, v)

SpecScalar == Init /\ [][NextScalar]_vars

C17_Step ==
    \A n \in DOMAIN natives, v \in ScalarValues :
        LET value == natives[n].graphene_type
        IN  /\ ScalarCall(n, "serialize", v) =>
                lastOut' = ApplyStatic(GetStatic(types, value, "resolve_value"), v)
            /\ ScalarCall(n, "parse_literal", v) =>
                lastOut' = ApplyStatic(GetStatic(types, value, "parse_literal"), v)

\* C17: the native scalar built for a declared scalar outside the five
\* builtin names calls through to the declared static methods: serializing
\* a value gives the declared resolve_value of it, parsing a literal gives
\* the declared parse_literal of it.
C17_CustomScalarCallsThrough == [][C17_Step]_vars

\* =============================================================== Integer
\* Python integers are unbounded: a value is kept as its sign and its
\* magnitude hi * Base + lo, with 0 <= lo < Base
Base == 65536

Delta == 8

Big(neg, hi, lo) == [neg |-> neg, hi |-> hi, lo |-> lo]

\* the same with lo anywhere near 0..Base-1
Norm(neg, hi, lo) == Big(neg, hi + (lo \div Base), lo % Base)

\* 2147483647 and -2147483648
MAX_INT == Big(FALSE, 32767, 65535)
MIN_INT == Big(TRUE, 32768, 0)

\* graphql.Undefined
Undefined == [undefined |-> TRUE]

MagLeq(a, b) == a.hi < b.hi \/ (a.hi = b.hi /\ a.lo <= b.lo)

\* a <= b on Python integers
Leq(a, b) ==
    IF a.neg /\ ~b.neg THEN TRUE
    ELSE IF ~a.neg /\ b.neg THEN FALSE
    ELSE IF a.neg THEN MagLeq(b, a)
    ELSE MagLeq(a, b)

\* the range test with the upper end left out
InIntRangeExclusive(value) == Leq(MIN_INT, value) /\ Leq(value, MAX_INT) /\ value # MAX_INT

\* MIN_INT <= value <= MAX_INT
InIntRange(value) == Leq(MIN_INT, value) /\ Leq(value, MAX_INT)

\* str(value): the decimal digits of the magnitude, most significant first
RECURSIVE MagDigits(_, _)
MagDigits(hi, lo) ==
    IF hi = 0 /\ lo < 10 THEN <<lo>>
    ELSE LET low == (hi % 10) * Base + lo
         IN  Append(MagDigits(hi \div 10, low \div 10), low % 10)

str(value) == [neg |-> value.neg, digits |-> MagDigits(value.hi, value.lo)]

\* int(text) for a decimal literal
RECURSIVE ParseMag(_, _, _)
ParseMag(digits, hi, lo) ==
    IF digits = <<>> THEN <<hi, lo>>
    ELSE LET low == lo * 10 + Head(digits)
         IN  ParseMag(Tail(digits), hi * 10 + (low \div Base), low % Base)

int(text) ==
    LET mag == ParseMag(text.digits, 0, 0)
    IN  Big(text.neg /\ mag # <<0, 0>>, mag[1], mag[2])

\* IntValueNode(value=text) / StringValueNode(value=text)
ValueNode(kind, text) == [kind |-> kind, value |-> text]

\* Integer.parse_literal(node)
Integer_parse_literal(node) ==
    IF node.kind = "IntValueNode"
    THEN LET value == int(node.value)
         IN  IF InIntRange(value) THEN value ELSE Undefined
    ELSE Undefined

\* Integer.resolve_value(value) for a Python integer: int(value) is value
Integer_resolve_value(value) ==
    IF InIntRange(value) THEN value ELSE Undefined

\* the integers within Delta of 0, of MAX_INT and of MIN_INT
IntegerInputs ==
    {Norm(FALSE, 32767, 65535 + d) : d \in (0 - Delta)..Delta}
    \cup {Norm(TRUE, 32768, d) : d \in (0 - Delta)..Delta}
    \cup {Big(d < 0, 0, IF d < 0 THEN 0 - d ELSE d) : d \in (0 - Delta)..Delta}

InitInteger ==
    /\ heap = <<>>
    /\ types = <<BaseTypeRec("Scalar", "String"), BaseTypeRec("Scalar", "Integer")>>
    /\ memo = <<>>
    /\ natives = <<>>
    /\ lazy_calls = [declaration |-> 0, translation |-> 0]
    /\ lastOp = "init"
    /\ lastOut = NoRef
    /\ err = None
    /\ input \in IntegerInputs

\* Integer.resolve_value(input)
ResolveValue ==
    /\ lastOp' = "resolve_value"
    /\ lastOut' = Integer_resolve_value(input)
    /\ UNCHANGED <<input, heap, types, memo, natives, lazy_calls, err>>

\* Integer.parse_literal(IntValueNode(value=str(input))), or the same
\* text in a StringValueNode
ParseLiteral(kind) ==
    /\ lastOp' = "parse_literal(" \o kind \o ")"
    /\ lastOut' = Integer_parse_literal(ValueNode(kind, str(input)))
    /\ UNCHANGED <<input, heap, types, memo, natives, lazy_calls, err>>

NextInteger ==
    \/ ResolveValue
    \/ \E kind \in {"IntValueNode", "StringValueNode"} : ParseLiteral(kind)

SpecInteger == InitInteger /\ [][NextInteger]_vars

\* -2^31 <= n <= 2^31 - 1, on the sign and the magnitude
InSigned32(n) ==
    IF n.neg THEN n.hi < 32768 \/ (n.hi = 32768 /\ n.lo = 0)
    ELSE n.hi < 32768

\* C19: Integer.resolve_value and Integer.parse_literal return the integer
\* itself for every integer in [-2^31, 2^31 - 1] and Undefined for every
\* integer at or above 2^31 and at or below -2^31 - 1.
C19_IntegerRange ==
    lastOp \in {"resolve_value", "parse_literal(IntValueNode)"} =>
        lastOut = IF InSigned32(input) THEN input ELSE Undefined

\* 2^31 has been parsed from its literal and refused, and 2^31 - 1 is what
\* the parser of 2147483647 would hand back
C19_Witness ==
    /\ lastOp = "parse_literal(IntValueNode)"
    /\ input = Big(FALSE, 32768, 0)
    /\ str(input).digits = <<2, 1, 4, 7, 4, 8, 3, 6, 4, 8>>
    /\ lastOut = Undefined
    /\ Integer_parse_literal(ValueNode("IntValueNode", str(MAX_INT))) = MAX_INT

\* ======================================================== Schema.execute
MaxOption == 2

\* the pairs (old_key, new_key) of Schema._normalize_kwargs, in order
values ==
    <<<<"root", "root_value">>, <<"context", "context_value">>,
      <<"variables", "variable_values">>,
      <<"operation_name", "operation_name">>>>

\* the same loop with the engine's name tried first
RECURSIVE normalize_new_key_first(_, _, _)
normalize_new_key_first(kwargs, pairs, new_kwargs) ==
    IF pairs = <<>> THEN new_kwargs
    ELSE LET old_key == Head(pairs)[1]
             new_key == Head(pairs)[2]
         IN  normalize_new_key_first(kwargs, Tail(pairs),
                IF new_key \in DOMAIN kwargs
                THEN [k \in DOMAIN new_kwargs \cup {new_key} |->
                        IF k = new_key THEN kwargs[new_key] ELSE new_kwargs[k]]
                ELSE IF old_key \in DOMAIN kwargs
                THEN [k \in DOMAIN new_kwargs \cup {new_key} |->
                        IF k = new_key THEN kwargs[old_key] ELSE new_kwargs[k]]
                ELSE new_kwargs)

\* the loop of Schema._normalize_kwargs (lines 391-395)
RECURSIVE normalize_loop(_, _, _)
normalize_loop(kwargs, pairs, new_kwargs) ==
    IF pairs = <<>> THEN new_kwargs
    ELSE LET old_key == Head(pairs)[1]
             new_key == Head(pairs)[2]
         IN  normalize_loop(kwargs, Tail(pairs),
                IF old_key \in DOMAIN kwargs
                THEN [k \in DOMAIN new_kwargs \cup {new_key} |->
                        IF k = new_key THEN kwargs[old_key] ELSE new_kwargs[k]]
                ELSE IF new_key \in DOMAIN kwargs
                THEN [k \in DOMAIN new_kwargs \cup {new_key} |->
                        IF k = new_key THEN kwargs[new_key] ELSE new_kwargs[k]]
                ELSE new_kwargs)

\* the method with the engine's name tried first
normalize_kwargs_new_key_first(kwargs) ==
    normalize_new_key_first(kwargs, values, <<>>)

\* Schema._normalize_kwargs(**kwargs)
normalize_kwargs(kwargs) == normalize_loop(kwargs, values, <<>>)

\* the keyword options a caller may give: the four options, two of the
\* engine's own names and one the method does not know
OptionKeys ==
    {"root", "context", "variables", "operation_name",
     "root_value", "variable_values", "middleware"}

Kwargs == UNION {[K -> 1..MaxOption] : K \in SUBSET OptionKeys}

InitExecute ==
    /\ heap = <<>>
    /\ types = <<BaseTypeRec("Scalar", "String"), BaseTypeRec("Scalar", "Integer")>>
    /\ memo = <<>>
    /\ natives = <<>>
    /\ lazy_calls = [declaration |-> 0, translation |-> 0]
    /\ lastOp = "init"
    /\ lastOut = <<>>
    /\ err = None
    /\ input \in Kwargs

\* schema.execute(query, **input): graphql_sync(self.graphql_schema, *args,
\* **normalized_kwargs); lastOut is the keyword arguments the engine gets
Execute ==
    /\ lastOp' = "execute"
    /\ lastOut' = normalize_kwargs(input)
    /\ UNCHANGED <<input, heap, types, memo, natives, lazy_calls, err>>

\* schema.aexecute(query, **input): agraphql(self.graphql_schema, *args,
\* **normalized_kwargs)
AExecute ==
    /\ lastOp' = "aexecute"
    /\ lastOut' = normalize_kwargs(input)
    /\ UNCHANGED <<input, heap, types, memo, natives, lazy_calls, err>>

NextExecute == Execute \/ AExecute

SpecExecute == InitExecute /\ [][NextExecute]_vars

\* C20: Schema.execute hands each of the options root, context, variables
\* and operation_name it is given to the engine as root_value,
\* context_value, variable_values and operation_name, with the value the
\* caller supplied.
C20_OptionsRenamed ==
    lastOp = "execute" =>
        /\ "root" \in DOMAIN input =>
              "root_value" \in DOMAIN lastOut /\ lastOut["root_value"] = input["root"]
        /\ "context" \in DOMAIN input =>
              "context_value" \in DOMAIN lastOut
              /\ lastOut["context_value"] = input["context"]
        /\ "variables" \in DOMAIN input =>
              "variable_values" \in DOMAIN lastOut
              /\ lastOut["variable_values"] = input["variables"]
        /\ "operation_name" \in DOMAIN input =>
              "operation_name" \in DOMAIN lastOut
              /\ lastOut["operation_name"] = input["operation_name"]

\* a call that gives root and root_value with different values, and every
\* other option besides
C20_Witness ==
    /\ lastOp = "execute"
    /\ {"root", "root_value", "context", "variables", "operation_name"} \subseteq DOMAIN input
    /\ input["root"] # input["root_value"]
    /\ lastOut["root_value"] = input["root"]
    /\ DOMAIN lastOut = {"root_value", "context_value", "variable_values", "operation_name"}

\* the options Schema.execute renames, under either name
RenamedKeys == {values[i][1] : i \in DOMAIN values} \cup {values[i][2] : i \in DOMAIN values}

\* C21: a keyword option given to execute or aexecute that is not one of
\* root, context, variables, operation_name (middleware, say) reaches the
\* engine call with its value unchanged.
C21_OtherOptionsPassedOn ==
    lastOp \in {"execute", "aexecute"} =>
        \A k \in DOMAIN input \ RenamedKeys :
            k \in DOMAIN lastOut /\ lastOut[k] = input[k]

\* C22: across any sequence of add_to_self calls on one container, each
\* declared type name is translated at most once: no two native objects
\* were built for the same name.
C22_TranslatedOncePerName ==
    \A i, j \in DOMAIN natives :
        natives[i].name = natives[j].name => i = j

\* the name a declared field is to be translated under
ExternalName(key, oid) == IF heap[oid].name # None THEN heap[oid].name ELSE key

\* C23: the native object of a declared type has the native field of every
\* declared field, a field with arguments included, under the field's name
\* override when set and otherwise under its key in _meta.fields; with
\* distinct names there is exactly one entry per declared field.
C23_FieldsUnderTheirNames ==
    \A n \in DOMAIN natives :
        natives[n].kind = "object" =>
            LET fields == types[natives[n].graphene_type].fields
            IN  /\ \A i \in DOMAIN fields :
                      HasKey(natives[n].fields, ExternalName(fields[i][1], fields[i][2]))
                /\ (\A i, j \in DOMAIN fields :
                        ExternalName(fields[i][1], fields[i][2])
                          = ExternalName(fields[j][1], fields[j][2]) => i = j)
                   => Len(natives[n].fields) = Len(fields)

\* ============================================== resolvers of native fields
MaxResolveObjs == 5

\* the resolve_f / subscribe_f functions a class body may define after its
\* fields
ResolveMethods ==
    {<<>>,
     <<<<"resolve_f", Function>>>>,
     <<<<"subscribe_f", Function>>>>,
     <<<<"resolve_f", Function>>, <<"subscribe_f", Function>>>>}

\* the interfaces I and J declare f, the object type A declares f itself
\* or takes it from the interfaces it lists; then A is translated
NextResolve ==
    \/ /\ Cardinality(Fresh) <= 0
       /\ Declaring
       /\ NewImplicit(StringT, <<>>)
       /\ Len(heap') <= MaxResolveObjs
    \/ /\ Cardinality(Fresh) <= 0
       /\ Declaring
       /\ ~Unbound("I")
       /\ \E resolver \in {None, "r"} :
            NewField(StringT, <<>>, <<>>, None, resolver)
       /\ Len(heap') <= MaxResolveObjs
    \/ /\ Declaring
       /\ \E name \in InterfaceNames, body \in ClassBodies("P", OidsOf({"Implicit"}) \cap Fresh),
             m \in ResolveMethods :
            /\ DeclaredInOrder(name)
            /\ body # <<>>
            /\ DeclareType("Interface", name, body \o m, <<>>)
       /\ Len(heap') <= MaxResolveObjs
    \/ /\ Declaring
       /\ \E body \in ClassBodies("P", OidsOf({"Field"}) \cap Fresh),
             m \in ResolveMethods, interfaces \in InterfaceLists :
            /\ DeclaredInOrder("A")
            /\ body # <<>> \/ interfaces # <<>>
            /\ DeclareType("ObjectType", "A", body \o m, interfaces)
       /\ Len(heap') <= MaxResolveObjs
    \/ \E t \in UserTypes("ObjectType") : AddToSelf(t)

SpecResolve == Init /\ [][NextResolve]_vars

\* the interfaces of t, in declaration order, that declare the field `key`
\* and define the function func_name
Providers(t, key, func_name) ==
    {i \in DOMAIN types[t].interfaces :
        /\ HasKey(types[types[t].interfaces[i]].fields, key)
        /\ HasMethod(types, types[t].interfaces[i], func_name)}

\* func_name is found on the type or on an interface that declares the field
Found(t, key, func_name) ==
    HasMethod(types, t, func_name) \/ Providers(t, key, func_name) # {}

\* the declared fields without arguments of the type of a native object
PlainFields(n) ==
    LET fields == types[natives[n].graphene_type].fields
    IN  {i \in DOMAIN fields : heap[fields[i][2]].arguments = <<>>}

\* C24: for a field with no explicit resolver and no resolve_<name> method,
\* when a subscribe_<name> function is found on the object type or on one
\* of its interfaces that declares the field, the native field's resolver
\* is the identity resolver.
C24_SubscriptionUsesIdentity ==
    \A n \in DOMAIN natives :
        natives[n].kind = "object" =>
            LET t == natives[n].graphene_type
                fields == types[t].fields
            IN  \A i \in PlainFields(n) :
                    (/\ heap[fields[i][2]].resolver = None
                     /\ ~Found(t, fields[i][1], "resolve_" \o fields[i][1])
                     /\ Found(t, fields[i][1], "subscribe_" \o fields[i][1]))
                    => Lookup(natives[n].fields, fields[i][1]).resolve
                         = resolve_for_subscription

\* the resolver the order of precedence gives the field `key` of type t
Preferred(t, key, field_obj) ==
    LET func_name == "resolve_" \o key
        first == CHOOSE i \in Providers(t, key, func_name) :
                    \A j \in Providers(t, key, func_name) : i <= j
    IN  IF field_obj.resolver # None
        THEN Resolver("explicit", NoRef, field_obj.resolver)
        ELSE IF HasMethod(types, t, func_name)
        THEN Resolver("method", t, func_name)
        ELSE IF Providers(t, key, func_name) # {}
        THEN Resolver("method", types[t].interfaces[first], func_name)
        ELSE DefaultResolver(key)

dataclass_fields(h, filtered_fields) ==
    [i \in DOMAIN filtered_fields |->
        <<filtered_fields[i][1],
          IF /\ filtered_fields[i][2] \in DOMAIN h
             /\ h[filtered_fields[i][2]].cls = "Field"
          THEN None ELSE None>>]

\* lines 147-159: the class statement of t went on to make a dataclass,
\* which it does not for an interface or a class without attributes
has_dataclass_model(t) ==
    /\ types[t].kind = "ObjectType"
    /\ MergedFields(types, types[t].namespace, types[t].interfaces) # <<>>

\* the dataclass_model the class statement of t set on the class (lines
\* 161-199)
dataclass_model(t) ==
    dataclass_fields(heap,
        MergedFields(types, types[t].namespace, types[t].interfaces))

\* C26: the attribute names of the dataclass_model of an object type are
\* exactly the keys of its _meta.fields (no resolver method is among them)
\* and each attribute's default is the field's default_value.
C26_DataclassMirrorsFields ==
    \A t \in UserTypes("ObjectType") :
        has_dataclass_model(t) =>
            /\ {dataclass_model(t)[i][1] : i \in DOMAIN dataclass_model(t)}
                 = {types[t].fields[i][1] : i \in DOMAIN types[t].fields}
            /\ \A i \in DOMAIN dataclass_model(t) :
                  dataclass_model(t)[i][2] = None

\* ------------------------------------------- interface fields are copied
\* a class statement of an object type that lists interfaces leaves each of
\* them, and each descriptor they hold, as it was, and the new type holds
\* none of those descriptor objects
C27_Step ==
    \A t \in DOMAIN types' \ DOMAIN types :
        types'[t].kind = "ObjectType" =>
            \A i \in Range(types'[t].interfaces) :
                /\ types'[i] = types[i]
                /\ \A o \in Values(types[i].fields) :
                      /\ heap'[o] = heap[o]
                      /\ o \notin Values(types'[t].fields)

\* C27: the descriptor an object type holds for a field it takes from an
\* interface is a copy: declaring object types that implement interface I
\* leaves I._meta.fields and every descriptor in it (creation_counter
\* included) unchanged, and no descriptor object is shared between I and
\* an implementing type.
C27_InterfaceFieldsCopied == [][C27_Step]_vars

\* ------------------------------------------------ two types of one name
\* a call of add_to_self builds a native object for a type only when no
\* other type of the same name has one, and a call that builds nothing
\* returns the native object the memo held for the name
C28_Step ==
    /\ \A i \in DOMAIN natives' \ DOMAIN natives :
          \A j \in DOMAIN natives' :
              natives'[j].name = natives'[i].name =>
                  natives'[j].graphene_type = natives'[i].graphene_type
    /\ (/\ lastOp' = "add_to_self"
        /\ err' = None
        /\ natives' = natives
        /\ lastOut' \in DOMAIN natives)
       => Get(memo, natives[lastOut'].name) = lastOut'

\* C28: when two distinct declared types have the same name, the one
\* passed to add_to_self first is translated and stored; every later
\* add_to_self on the other returns the first one's native object and the
\* other type is never translated.
C28_FirstOfANameWins == [][C28_Step]_vars

\* -------------------------------------- translate_arguments and its input
\* constructing a field leaves every Argument object as it was, and the
\* new field's argument map holds each Argument that was constructed
\* without a name under the key it was declared with
C29_Step ==
    /\ \A o \in DOMAIN heap :
          heap[o].cls = "Argument" => heap'[o] = heap[o]
    /\ \A x \in DOMAIN heap' \ DOMAIN heap :
          heap'[x].cls = "Field" =>
              \A i \in DOMAIN heap'[x].args :
                  LET e == heap'[x].args[i]
                  IN  (heap[e[2]].cls = "Argument" /\ heap[e[2]].given_name = None)
                      => /\ HasKey(heap'[x].arguments, e[1])
                         /\ Lookup(heap'[x].arguments, e[1]) = e[2]

\* C29: Argument.translate_arguments leaves the Argument instances it is
\* given unchanged: an Argument constructed without a name still has name
\* None afterwards, so one Argument instance declared under different keys
\* on two fields is named by its own key in each field's argument map.
C29_ArgumentsLeftUnchanged == [][C29_Step]_vars

\* --------------------------------------------------- a failed add_to_self
MaxFailObjs == 3

\* fields of type String, of an interface or of an object type, the
\* interface I, the object types A then B with one or two such fields, and
\* then the container is asked for any of them: add_to_self raises
\* ValueError for I and for every type that reaches I
NextFail ==
    \/ /\ Declaring
       /\ Cardinality(Fresh) <= 1
       /\ \E t \in DOMAIN types \ {IntegerT} :
            NewField(t, <<>>, <<>>, None, None)
       /\ Len(heap') <= MaxFailObjs
    \/ /\ Declaring
       /\ DeclaredInOrder("I")
       /\ Fresh = {}
       /\ DeclareType("Interface", "I", <<>>, <<>>)
    \/ /\ Declaring
       /\ \E name \in ClassNames, body \in Bodies(Fresh) :
            /\ DeclaredInOrder(name)
            /\ body # <<>>
            /\ Fresh \subseteq Values(body)
            /\ DeclareType("ObjectType", name, body, <<>>)
    \/ \E t \in DOMAIN types \ {IntegerT} : AddToSelf(t)

SpecFail == Init /\ [][NextFail]_vars

\* C30: when add_to_self raises for a declared type (no name, or a kind
\* the dispatch cannot translate, at any depth of the type graph) the
\* container's name-to-native mapping is the same as before the call: no
\* entry is left behind for the types reached during the failed call.
C30_FailedCallLeavesMemo ==
    [][(lastOp' = "add_to_self" /\ err' # None) => memo' = memo]_vars

====
